---- MODULE Spec2Model ----
(***************************************************************************)
(* Model of the VideoGenerator component and its useFFmpeg hook.           *)
(*                                                                         *)
(* A React render is taken to follow every state update before the next    *)
(* event is handled, so every handler below reads the latest state, and    *)
(* the effect cleanups a state change triggers are part of the action that *)
(* makes the change.  The transcoder (FFmpeg) is an external black box:    *)
(* each of its promises resolves or rejects by a nondeterministic choice,  *)
(* and its virtual filesystem is a set of named files.                     *)
(***************************************************************************)
EXTENDS Integers, Sequences, FiniteSets, TLC

VARIABLES
    mounted,       \* the component is mounted
    preparePc,     \* the mount effect: "init", "loading", "done", "failed"
    ffmpegRef,     \* ffmpegRef.current: "null" or "inst"
    loaded,        \* ffmpegRef.current.loaded
    ffmpegState,   \* the hook's GenerationState
    state,         \* the component's GenerationState
    imageFile,     \* "null" or a file name
    imagePreview,  \* 0 (null) or an object URL
    videoUrl,      \* 0 (null) or an object URL
    duration,
    fps,
    urls,          \* object URLs created and not yet revoked
    nextUrl,       \* number of object URLs created so far
    fs,            \* the names of the files in the transcoder's filesystem
    runs,          \* the generateVideo invocations that passed the image check
    nextRun,       \* number of such invocations so far
    loadPending,   \* callers awaiting the transcoder's own load()
    loadCalls,     \* number of invocations of the transcoder's own load()
    lastOp         \* the handler or continuation that ran last

vars == <<mounted, preparePc, ffmpegRef, loaded, ffmpegState, state, imageFile,
          imagePreview, videoUrl, duration, fps, urls, nextUrl, fs, runs,
          nextRun, loadPending, loadCalls, lastOp>>

----------------------------------------------------------------------------
(* Bounds *)

MaxRuns == 2
MaxUrls == 2

----------------------------------------------------------------------------
(* Program constants and inputs *)

InitDuration == 5
InitFps == 30
MinDuration == 2
MaxDuration == 12

DurationInputs == {MaxDuration}
FpsOptions == {24, 30, 60}
FpsInputs == {60}

MsgLoadFailed == "Failed to load FFmpeg. Please refresh and try again."
MsgUnsupported == "Unsupported file. Please select an image."
MsgNoImage == "Please choose an image before generating."
MsgGenerateFailed == "Something went wrong while generating the video. Please try again."
MsgGenerating == "Generating video with FFmpeg..."
MsgLoading == "Loading FFmpeg core (runs locally in your browser)..."
MsgInitializing == "Initializing FFmpeg..."

Idle == [status |-> "idle", message |-> ""]
Loading == [status |-> "loading", message |-> ""]
Processing == [status |-> "processing", message |-> ""]
Error(m) == [status |-> "error", message |-> m]

\* The files a user can pick, each with its MIME type as a sequence of
\* characters.
ImagePrefix == <<"i", "m", "a", "g", "e", "/">>
FileType(f) ==
    CASE f = "a.png" -> ImagePrefix \o <<"p", "n", "g">>
      [] f = "c.txt" -> <<"t", "e", "x", "t", "/", "p", "l", "a", "i", "n">>
      [] OTHER -> <<"i", "m", "a", "g", "e">>
Files == {"a.png", "c.txt", "d.image"}

StartsWith(s, p) == Len(s) >= Len(p) /\ SubSeq(s, 1, Len(p)) = p

\* Mutant: the prefix is tested without its slash.
IsImage_NoSlash(f) == StartsWith(FileType(f), SubSeq(ImagePrefix, 1, 5))

IsImage(f) == StartsWith(FileType(f), ImagePrefix)

----------------------------------------------------------------------------
(* Derived render values *)

Ready == ffmpegState.status # "error" /\ (IF ffmpegRef = "null" THEN FALSE ELSE loaded)

isProcessing == state.status = "processing"

statusMessage ==
    IF state.status = "error" THEN state.message
    ELSE IF state.status = "processing" THEN MsgGenerating
    ELSE IF ffmpegState.status = "loading" THEN MsgLoading
    ELSE IF ~Ready THEN MsgInitializing
    ELSE ""

ControlsEnabled == mounted /\ preparePc # "init" /\ Ready /\ ~isProcessing

\* A state setter of an unmounted component changes nothing.
SetState(s) == IF mounted THEN s ELSE state
SetHookState(s) == IF mounted THEN s ELSE ffmpegState

----------------------------------------------------------------------------
(* Runs of generateVideo *)

\* `input${Date.now()}.png` and `output${Date.now()}.mp4` as read by run r:
\* runs are started by separate clicks and are taken to read different
\* milliseconds.
NoName == <<"none", 0>>
InputName(r) == <<"input", r>>
OutputName(r) == <<"output", r>>

NoRun == [pc |-> "none", inputName |-> NoName,
          outputName |-> NoName, log |-> <<>>, url |-> 0]

RunIds == 1..MaxRuns

AwaitPcs == {"load", "fetch", "write", "exec", "read", "delIn", "delOut"}
InFlight == {r \in RunIds : runs[r].pc \in AwaitPcs}

Call(op, name) == [op |-> op, name |-> name, ph |-> "call"]
Ok(op, name) == [op |-> op, name |-> name, ph |-> "ok"]
Fail(op, name) == [op |-> op, name |-> name, ph |-> "fail"]

FsWrite(name) == fs \cup {name}
FsDelete(name) == fs \ {name}

----------------------------------------------------------------------------
(* useFFmpeg *)

\* load(), up to its first await, called by the mount effect (c = 0) or by
\* run c of generateVideo.
\* Mutant: load() without its early return.
HookLoadCached_Never == FALSE

HookLoadCached == (IF ffmpegRef = "null" THEN FALSE ELSE loaded)

HookLoadCall(c) ==
    /\ ffmpegRef' = "inst"
    /\ IF HookLoadCached
         THEN UNCHANGED <<ffmpegState, loadPending, loadCalls>>
         ELSE /\ ffmpegState' = SetHookState(Loading)
              /\ loadPending' = loadPending \cup {c}
              /\ loadCalls' = loadCalls + 1

\* generateVideo from the return of `await load()` to the call of fetchFile.
BeginBody(run, r) ==
    [run EXCEPT !.pc = "fetch", !.inputName = InputName(r),
                !.outputName = OutputName(r),
                !.log = Append(@, Ok("load", NoName))]

\* The catch block of generateVideo.
Catch(r, entries) ==
    /\ runs' = [runs EXCEPT ![r].pc = "failed", ![r].log = @ \o entries]
    /\ state' = SetState(Error(MsgGenerateFailed))

MountEffect ==
    /\ mounted /\ preparePc = "init"
    /\ HookLoadCall(0)
    /\ preparePc' = IF HookLoadCached THEN "done" ELSE "loading"
    /\ lastOp' = <<"other", "">>
    /\ UNCHANGED <<mounted, loaded, state, imageFile, imagePreview, videoUrl,
                   duration, fps, urls, nextUrl, fs, runs, nextRun>>

FFmpegLoadResolve(c) ==
    /\ c \in loadPending
    /\ loadPending' = loadPending \ {c}
    /\ loaded' = TRUE
    /\ ffmpegState' = SetHookState(Idle)
    /\ IF c = 0
         THEN preparePc' = "done" /\ UNCHANGED runs
         ELSE /\ runs' = [runs EXCEPT ![c] = BeginBody(@, c)]
              /\ UNCHANGED preparePc
    /\ lastOp' = <<"other", "">>
    /\ UNCHANGED <<mounted, ffmpegRef, state, imageFile, imagePreview, videoUrl,
                   duration, fps, urls, nextUrl, fs, nextRun, loadCalls>>

FFmpegLoadReject(c) ==
    /\ c \in loadPending
    /\ loadPending' = loadPending \ {c}
    /\ ffmpegState' = SetHookState(Error(MsgLoadFailed))
    /\ IF c = 0
         THEN preparePc' = "failed" /\ UNCHANGED <<runs, state>>
         ELSE Catch(c, <<Fail("load", NoName)>>) /\ UNCHANGED preparePc
    /\ lastOp' = <<"other", "">>
    /\ UNCHANGED <<mounted, ffmpegRef, loaded, imageFile, imagePreview, videoUrl,
                   duration, fps, urls, nextUrl, fs, nextRun, loadCalls>>

----------------------------------------------------------------------------
(* VideoGenerator: event handlers *)

HandleImageSelection(file) ==
    IF file = "null"
      THEN /\ imageFile' = "null"
           /\ imagePreview' = 0
           /\ urls' = urls \ {imagePreview}
           /\ UNCHANGED <<state, nextUrl>>
      ELSE IF ~IsImage(file)
      THEN /\ state' = Error(MsgUnsupported)
           /\ UNCHANGED <<imageFile, imagePreview, urls, nextUrl>>
      ELSE /\ nextUrl < MaxUrls
           /\ nextUrl' = nextUrl + 1
           /\ urls' = (urls \ {imagePreview}) \cup {nextUrl + 1}
           /\ imageFile' = file
           /\ imagePreview' = nextUrl + 1
           /\ state' = Idle

HandleFileChange(file) ==
    /\ mounted /\ preparePc # "init"
    /\ HandleImageSelection(file)
    /\ lastOp' = <<"select", file>>
    /\ UNCHANGED <<mounted, preparePc, ffmpegRef, loaded, ffmpegState, videoUrl,
                   duration, fps, fs, runs, nextRun, loadPending, loadCalls>>

HandleDrop(file) ==
    /\ mounted /\ preparePc # "init"
    /\ HandleImageSelection(file)
    /\ lastOp' = <<"select", file>>
    /\ UNCHANGED <<mounted, preparePc, ffmpegRef, loaded, ffmpegState, videoUrl,
                   duration, fps, fs, runs, nextRun, loadPending, loadCalls>>

ResetVideo ==
    /\ urls' = urls \ {videoUrl}
    /\ videoUrl' = 0

ClearVideo ==
    /\ mounted /\ videoUrl # 0
    /\ ResetVideo
    /\ state' = Idle
    /\ lastOp' = <<"other", "">>
    /\ UNCHANGED <<mounted, preparePc, ffmpegRef, loaded, ffmpegState, imageFile,
                   imagePreview, duration, fps, nextUrl, fs, runs, nextRun,
                   loadPending, loadCalls>>

SetDuration(d) ==
    /\ ControlsEnabled
    /\ duration' = d
    /\ lastOp' = <<"other", "">>
    /\ UNCHANGED <<mounted, preparePc, ffmpegRef, loaded, ffmpegState, state,
                   imageFile, imagePreview, videoUrl, fps, urls, nextUrl, fs, runs, nextRun, loadPending, loadCalls>>

SetFps(f) ==
    /\ ControlsEnabled
    /\ fps' = f
    /\ lastOp' = <<"other", "">>
    /\ UNCHANGED <<mounted, preparePc, ffmpegRef, loaded, ffmpegState, state,
                   imageFile, imagePreview, videoUrl, duration, urls, nextUrl, fs,
                   runs, nextRun, loadPending, loadCalls>>

\* Mutant: the video is reset before the image is checked.
GenerateNoImage_ResetsVideo ==
    /\ state' = Error(MsgNoImage)
    /\ ResetVideo
    /\ UNCHANGED <<ffmpegRef, ffmpegState, runs, nextRun, loadPending, loadCalls>>

GenerateNoImage ==
    /\ state' = Error(MsgNoImage)
    /\ UNCHANGED <<ffmpegRef, ffmpegState, videoUrl, urls, runs, nextRun,
                   loadPending, loadCalls>>

GenerateRun ==
    /\ nextRun < MaxRuns
    /\ nextRun' = nextRun + 1
    /\ state' = Processing
    /\ ResetVideo
    /\ HookLoadCall(nextRun + 1)
    /\ LET r == nextRun + 1
           started == [NoRun EXCEPT !.pc = "load",
                                    !.log = <<Call("load", NoName)>>]
       IN  runs' = [runs EXCEPT ![r] = IF HookLoadCached
                                         THEN BeginBody(started, r)
                                         ELSE started]

GenerateVideo ==
    /\ ControlsEnabled
    /\ IF imageFile = "null" THEN GenerateNoImage ELSE GenerateRun
    /\ lastOp' = <<"generateVideo", "">>
    /\ UNCHANGED <<mounted, preparePc, loaded, imageFile, imagePreview, duration,
                   fps, nextUrl, fs>>

Unmount ==
    /\ mounted /\ preparePc # "init"
    /\ mounted' = FALSE
    /\ urls' = urls \ {imagePreview, videoUrl}
    /\ lastOp' = <<"other", "">>
    /\ UNCHANGED <<preparePc, ffmpegRef, loaded, ffmpegState, state, imageFile,
                   imagePreview, videoUrl, duration, fps, nextUrl, fs, runs,
                   nextRun, loadPending, loadCalls>>

----------------------------------------------------------------------------
(* generateVideo: the continuations after each await *)

FetchResolve(r) ==
    /\ runs[r].pc = "fetch"
    /\ runs' = [runs EXCEPT ![r].pc = "write",
                  ![r].log = Append(@, Call("writeFile", runs[r].inputName))]
    /\ lastOp' = <<"other", "">>
    /\ UNCHANGED <<mounted, preparePc, ffmpegRef, loaded, ffmpegState, state,
                   imageFile, imagePreview, videoUrl, duration, fps, urls, nextUrl,
                   fs, nextRun, loadPending, loadCalls>>

WriteResolve(r) ==
    /\ runs[r].pc = "write"
    /\ fs' = FsWrite(runs[r].inputName)
    /\ runs' = [runs EXCEPT ![r].pc = "exec",
                  ![r].log = @ \o <<Ok("writeFile", runs[r].inputName),
                                    Call("exec", runs[r].outputName)>>]
    /\ lastOp' = <<"other", "">>
    /\ UNCHANGED <<mounted, preparePc, ffmpegRef, loaded, ffmpegState, state,
                   imageFile, imagePreview, videoUrl, duration, fps, urls, nextUrl,
                   nextRun, loadPending, loadCalls>>

\* Mutant: the files are deleted before the output is read.
ExecResolve_DeletesBeforeRead(r) ==
    /\ runs[r].pc = "exec"
    /\ \E made \in BOOLEAN :
          /\ made => runs[r].inputName \in fs
          /\ fs' = IF made THEN FsWrite(runs[r].outputName) ELSE fs
    /\ runs' = [runs EXCEPT ![r].pc = "delIn",
                  ![r].log = @ \o <<Ok("exec", runs[r].outputName),
                                    Call("deleteFile", runs[r].inputName)>>]
    /\ lastOp' = <<"other", "">>
    /\ UNCHANGED <<mounted, preparePc, ffmpegRef, loaded, ffmpegState, state,
                   imageFile, imagePreview, videoUrl, duration, fps, urls, nextUrl,
                   nextRun, loadPending, loadCalls>>

\* exec resolves with the exit code, which generateVideo ignores: the output
\* file may or may not have been made.
ExecResolve(r) ==
    /\ runs[r].pc = "exec"
    /\ \E made \in BOOLEAN :
          /\ made => runs[r].inputName \in fs
          /\ fs' = IF made THEN FsWrite(runs[r].outputName) ELSE fs
    /\ runs' = [runs EXCEPT ![r].pc = "read",
                  ![r].log = @ \o <<Ok("exec", runs[r].outputName),
                                    Call("readFile", runs[r].outputName)>>]
    /\ lastOp' = <<"other", "">>
    /\ UNCHANGED <<mounted, preparePc, ffmpegRef, loaded, ffmpegState, state,
                   imageFile, imagePreview, videoUrl, duration, fps, urls, nextUrl,
                   nextRun, loadPending, loadCalls>>

\* Mutant: the input file is not deleted.
ReadResolve_SkipsDeleteInput(r) ==
    /\ runs[r].pc = "read"
    /\ runs[r].outputName \in fs
    /\ runs' = [runs EXCEPT ![r].pc = "delOut",
                  ![r].log = @ \o <<Ok("readFile", runs[r].outputName),
                                    Call("deleteFile", runs[r].outputName)>>]
    /\ lastOp' = <<"other", "">>
    /\ UNCHANGED <<mounted, preparePc, ffmpegRef, loaded, ffmpegState, state,
                   imageFile, imagePreview, videoUrl, duration, fps, urls, nextUrl,
                   fs, nextRun, loadPending, loadCalls>>

ReadResolve(r) ==
    /\ runs[r].pc = "read"
    /\ runs[r].outputName \in fs
    /\ runs' = [runs EXCEPT ![r].pc = "delIn",
                  ![r].log = @ \o <<Ok("readFile", runs[r].outputName),
                                    Call("deleteFile", runs[r].inputName)>>]
    /\ lastOp' = <<"other", "">>
    /\ UNCHANGED <<mounted, preparePc, ffmpegRef, loaded, ffmpegState, state,
                   imageFile, imagePreview, videoUrl, duration, fps, urls, nextUrl,
                   fs, nextRun, loadPending, loadCalls>>

DeleteInputResolve(r) ==
    /\ runs[r].pc = "delIn"
    /\ runs[r].inputName \in fs
    /\ fs' = FsDelete(runs[r].inputName)
    /\ runs' = [runs EXCEPT ![r].pc = "delOut",
                  ![r].log = @ \o <<Ok("deleteFile", runs[r].inputName),
                                    Call("deleteFile", runs[r].outputName)>>]
    /\ lastOp' = <<"other", "">>
    /\ UNCHANGED <<mounted, preparePc, ffmpegRef, loaded, ffmpegState, state,
                   imageFile, imagePreview, videoUrl, duration, fps, urls, nextUrl,
                   nextRun, loadPending, loadCalls>>

\* The last await, then the blob, its object URL, setVideoUrl and setState;
\* the cleanup of the videoUrl effect revokes the URL that is replaced.
DeleteOutputResolve(r) ==
    /\ runs[r].pc = "delOut"
    /\ runs[r].outputName \in fs
    /\ fs' = FsDelete(runs[r].outputName)
    /\ nextUrl' = nextUrl + 1
    /\ runs' = [runs EXCEPT ![r].pc = "done", ![r].url = nextUrl + 1,
                  ![r].log = Append(@, Ok("deleteFile", runs[r].outputName))]
    /\ IF mounted
         THEN /\ videoUrl' = nextUrl + 1
              /\ urls' = (urls \ {videoUrl}) \cup {nextUrl + 1}
         ELSE /\ videoUrl' = videoUrl
              /\ urls' = urls \cup {nextUrl + 1}
    /\ state' = SetState(Idle)
    /\ lastOp' = <<"other", "">>
    /\ UNCHANGED <<mounted, preparePc, ffmpegRef, loaded, ffmpegState, imageFile,
                   imagePreview, duration, fps, nextRun, loadPending,
                   loadCalls>>

\* The call a run is awaiting.
Awaited(run) ==
    CASE run.pc = "write" -> <<Fail("writeFile", run.inputName)>>
      [] run.pc = "exec" -> <<Fail("exec", run.outputName)>>
      [] run.pc = "read" -> <<Fail("readFile", run.outputName)>>
      [] run.pc = "delIn" -> <<Fail("deleteFile", run.inputName)>>
      [] run.pc = "delOut" -> <<Fail("deleteFile", run.outputName)>>
      [] OTHER -> <<>>

\* Any awaited promise of the body may reject; a failing exec may have made
\* its output file.
StepReject(r) ==
    /\ runs[r].pc \in AwaitPcs \ {"load"}
    /\ IF runs[r].pc = "exec"
         THEN \E made \in BOOLEAN :
                 /\ made => runs[r].inputName \in fs
                 /\ fs' = IF made THEN FsWrite(runs[r].outputName) ELSE fs
         ELSE fs' = fs
    /\ Catch(r, Awaited(runs[r]))
    /\ lastOp' = <<"other", "">>
    /\ UNCHANGED <<mounted, preparePc, ffmpegRef, loaded, ffmpegState, imageFile,
                   imagePreview, videoUrl, duration, fps, urls, nextUrl, nextRun, loadPending, loadCalls>>

----------------------------------------------------------------------------

Init ==
    /\ mounted = TRUE
    /\ preparePc = "init"
    /\ ffmpegRef = "null"
    /\ loaded = FALSE
    /\ ffmpegState = Idle
    /\ state = Idle
    /\ imageFile = "null"
    /\ imagePreview = 0
    /\ videoUrl = 0
    /\ duration = InitDuration
    /\ fps = InitFps
    /\ urls = {}
    /\ nextUrl = 0
    /\ fs = {}
    /\ runs = [r \in RunIds |-> NoRun]
    /\ nextRun = 0
    /\ loadPending = {}
    /\ loadCalls = 0
    /\ lastOp = <<"other", "">>

Next ==
    \/ MountEffect
    \/ \E c \in {0} \cup RunIds : FFmpegLoadResolve(c)
    \/ \E c \in {0} \cup RunIds : FFmpegLoadReject(c)
    \/ \E file \in Files \cup {"null"} : HandleFileChange(file)
    \/ \E file \in Files \cup {"null"} : HandleDrop(file)
    \/ ClearVideo
    \/ \E d \in DurationInputs : SetDuration(d)
    \/ \E f \in FpsInputs : SetFps(f)
    \/ GenerateVideo
    \/ Unmount
    \/ \E r \in RunIds : FetchResolve(r)
    \/ \E r \in RunIds : WriteResolve(r)
    \/ \E r \in RunIds : ExecResolve(r)
    \/ \E r \in RunIds : ReadResolve(r)
    \/ \E r \in RunIds : DeleteInputResolve(r)
    \/ \E r \in RunIds : DeleteOutputResolve(r)
    \/ \E r \in RunIds : StepReject(r)

Spec == Init /\ [][Next]_vars

----------------------------------------------------------------------------
(* Properties *)

Range(q) == {q[i] : i \in 1..Len(q)}
IsPrefix(a, b) == Len(a) <= Len(b) /\ SubSeq(b, 1, Len(a)) = a
Started == {r \in RunIds : runs[r].pc # "none"}

\* The transcoder calls of a complete run r, each followed by its completion.
FullLog(r) ==
    <<Call("load", NoName), Ok("load", NoName),
      Call("writeFile", InputName(r)), Ok("writeFile", InputName(r)),
      Call("exec", OutputName(r)), Ok("exec", OutputName(r)),
      Call("readFile", OutputName(r)), Ok("readFile", OutputName(r)),
      Call("deleteFile", InputName(r)), Ok("deleteFile", InputName(r)),
      Call("deleteFile", OutputName(r)), Ok("deleteFile", OutputName(r))>>

\* A log without the failure that ended it.
Calls(log) ==
    IF log # <<>> /\ log[Len(log)].ph = "fail"
      THEN SubSeq(log, 1, Len(log) - 1)
      ELSE log

\* C1: the calls of every run with a selected image are an initial part of
\* load, writeFile(input), exec, readFile(output), deleteFile(input),
\* deleteFile(output), each call made only after the one before it has
\* completed; a run that sets videoUrl has made them all, once each, and its
\* URL is a new one created after its readFile succeeded; exec is called only
\* on a loaded transcoder.
C1_CallOrder ==
    /\ \A r \in Started :
          /\ IsPrefix(Calls(runs[r].log), FullLog(r))
          /\ runs[r].pc = "done" <=> runs[r].url # 0
          /\ runs[r].pc = "done" => runs[r].log = FullLog(r)
          /\ runs[r].url # 0 =>
                /\ Ok("readFile", OutputName(r)) \in Range(runs[r].log)
                /\ runs[r].url # imagePreview
                /\ \A q \in Started \ {r} : runs[q].url # runs[r].url
          /\ Call("exec", OutputName(r)) \in Range(runs[r].log) => loaded
    /\ videoUrl # 0 => \E r \in Started : runs[r].url = videoUrl

C1_Witness ==
    \E r \in Started :
        runs[r].pc = "done" /\ runs[r].log = FullLog(r) /\ videoUrl = runs[r].url

\* C2: when a step of a run fails, the status becomes the generic error,
\* videoUrl is null, no object URL is created for the run and no call of the
\* run is made twice.
C2_FailureLeavesNoVideo ==
    [][\A r \in RunIds :
          (runs[r].pc \in AwaitPcs /\ runs'[r].pc = "failed") =>
              /\ mounted => state' = Error(MsgGenerateFailed)
              /\ videoUrl' = 0
              /\ nextUrl' = nextUrl
              /\ runs'[r].url = 0
              /\ IsPrefix(Calls(runs'[r].log), FullLog(r))]_vars

\* C3: once the load started on mount has rejected, the status message shown
\* is the "Failed to load FFmpeg" error.
C3_LoadFailureShown ==
    (mounted /\ preparePc = "failed") => statusMessage = MsgLoadFailed

\* C4: the object URLs created and not revoked are exactly the non-null values
\* of imagePreview and videoUrl while mounted, and none after unmount.
C4_ObjectUrlsManaged ==
    urls = IF mounted THEN {imagePreview, videoUrl} \ {0} ELSE {}

\* C5: the transcoder's load is invoked at most once; the load() of a run finds
\* the instance loaded, returns it at once and leaves the hook's state alone;
\* after a failed load the Generate control stays disabled, and no run and no
\* second load happen.
C5_LoadOnce ==
    /\ loadCalls <= 1
    /\ \A r \in Started :
          /\ loaded /\ ffmpegRef = "inst"
          /\ loadCalls = 1
          /\ ffmpegState = Idle
          /\ r \notin loadPending
          /\ IsPrefix(<<Call("load", NoName), Ok("load", NoName)>>, runs[r].log)
    /\ preparePc = "failed" =>
          /\ ~Ready /\ ~ControlsEnabled
          /\ Started = {} /\ loadCalls = 1 /\ loadPending = {}

C5_Witness ==
    /\ Cardinality(Started) = MaxRuns
    /\ loadCalls = 1

\* C6: generateVideo with no image selected sets the "Please choose an image"
\* error and changes nothing else: no transcoder call, and videoUrl, imageFile,
\* imagePreview, duration and fps stay as they are.
C6_GenerateWithoutImage ==
    [][(lastOp' = <<"generateVideo", "">> /\ imageFile = "null") =>
          /\ state' = Error(MsgNoImage)
          /\ UNCHANGED <<videoUrl, imageFile, imagePreview, duration, fps, urls,
                         nextUrl, fs, runs, nextRun, loadPending, loadCalls,
                         ffmpegState, loaded>>]_vars

C6_Witness ==
    /\ lastOp = <<"generateVideo", "">>
    /\ imageFile = "null"
    /\ state = Error(MsgNoImage)
    /\ videoUrl # 0 /\ videoUrl \in urls

\* The MIME types of the files, as the user's system reports them.
ImageFiles == {"a.png"}
OtherFiles == {"c.txt", "d.image"}

\* C7: a file whose type does not start with "image/" is rejected with the
\* "Unsupported file" error and leaves imageFile, imagePreview, videoUrl and
\* the object URLs alone; an image replaces imageFile and imagePreview
\* together and sets the status to idle; imagePreview is non-null exactly
\* when imageFile is.
C7_ImageSelection ==
    /\ [](imagePreview # 0 <=> imageFile # "null")
    /\ [][\A f \in OtherFiles :
            lastOp' = <<"select", f>> =>
                /\ state' = Error(MsgUnsupported)
                /\ UNCHANGED <<imageFile, imagePreview, videoUrl, urls, nextUrl>>]_vars
    /\ [][\A f \in ImageFiles :
            lastOp' = <<"select", f>> =>
                /\ imageFile' = f
                /\ imagePreview' # 0 /\ imagePreview' \notin urls
                /\ urls' = (urls \ {imagePreview}) \cup {imagePreview'}
                /\ state' = Idle
                /\ videoUrl' = videoUrl]_vars

C7_Witness ==
    /\ lastOp \in {<<"select", f>> : f \in OtherFiles}
    /\ state = Error(MsgUnsupported)
    /\ imageFile \in ImageFiles
    /\ imagePreview \in urls /\ urls = {imagePreview}
    /\ nextUrl = MaxUrls /\ videoUrl = 0

\* C8: while a run is in flight the status is processing, and at most one run
\* is in flight.
C8_OneGenerationAtATime ==
    InFlight # {} => (state.status = "processing" /\ Cardinality(InFlight) <= 1)

====
